---- MODULE Spec2Model ----
(***************************************************************************)
(* TypeSafeStore (src/lib/TypeSafeStore.ts) and the default-store wrappers *)
(* of src/lib/index.ts over an expo-secure-store backend.                  *)
(*                                                                         *)
(* Strings are sequences of one-character strings, so that key             *)
(* namespacing (template concatenation), String(), JSON.stringify and      *)
(* JSON.parse are computed character by character.                         *)
(***************************************************************************)
EXTENDS Integers, Sequences, FiniteSets, TLC

----------------------------------------------------------------------------
(* Bounds of the model *)

\* longest string value drawn over Alphabet
MaxStrLen == 3
\* numbers stored are 0..MaxNum
MaxNum == 11
\* longest array value
MaxArrLen == 2
\* concurrently outstanding setWithExpiration calls (awaiting or armed)
MaxTimers == 2
\* largest ttl, in clock units
MaxTtl == 1

----------------------------------------------------------------------------
(* JavaScript values.  t is the kind of the value; n carries a number or a *)
(* boolean (0/1); s the characters of a string (or an object's member      *)
(* name); e the elements of an array (or an object's member value).        *)

Val(t, n, s, e) == [t |-> t, n |-> n, s |-> s, e |-> e]
Undefined == Val("undefined", 0, <<>>, <<>>)
Null == Val("null", 0, <<>>, <<>>)
NaN == Val("NaN", 0, <<>>, <<>>)
Bool(b) == Val("boolean", IF b THEN 1 ELSE 0, <<>>, <<>>)
Num(n) == Val("number", n, <<>>, <<>>)
Str(s) == Val("string", 0, s, <<>>)
Arr(e) == Val("array", 0, <<>>, e)
\* an object with no member (e = <<>>) or the one member s: e[1]
Obj(s, e) == Val("object", 0, s, e)

\* typeof value
TypeOf(v) ==
  CASE v.t = "NaN" -> "number"
    [] v.t \in {"null", "array", "object"} -> "object"
    [] OTHER -> v.t

DigitChars == <<"0", "1", "2", "3", "4", "5", "6", "7", "8", "9">>
IsDigit(c) == \E d \in 1..10 : DigitChars[d] = c
DigitValue(c) == (CHOOSE d \in 1..10 : DigitChars[d] = c) - 1

RECURSIVE Digits(_)
Digits(n) == IF n < 10 THEN <<DigitChars[n + 1]>>
             ELSE Digits(n \div 10) \o <<DigitChars[(n % 10) + 1]>>

\* String(value) of a primitive
StringOf(v) ==
  CASE v.t = "string" -> v.s
    [] v.t = "number" -> Digits(v.n)
    [] v.t = "NaN" -> <<"N", "a", "N">>
    [] v.t = "boolean" -> IF v.n = 1 THEN <<"t", "r", "u", "e">>
                          ELSE <<"f", "a", "l", "s", "e">>

RECURSIVE Escape(_)
Escape(s) ==
  IF s = <<>> THEN <<>>
  ELSE (IF Head(s) \in {"\"", "\\"} THEN <<"\\", Head(s)>> ELSE <<Head(s)>>)
       \o Escape(Tail(s))

Quote(s) == <<"\"">> \o Escape(s) \o <<"\"">>

\* JSON.stringify(value) of a value other than a top-level undefined
RECURSIVE JsonStringify(_)
JsonStringify(v) ==
  LET RECURSIVE Join(_)
      \* array elements: undefined and NaN become null
      Join(e) ==
        IF e = <<>> THEN <<>>
        ELSE (IF Head(e).t = "undefined" THEN <<"n", "u", "l", "l">>
              ELSE JsonStringify(Head(e)))
             \o (IF Len(e) > 1 THEN <<",">> ELSE <<>>) \o Join(Tail(e))
  IN CASE v.t = "string" -> Quote(v.s)
       [] v.t = "number" -> Digits(v.n)
       [] v.t = "boolean" -> StringOf(v)
       [] v.t \in {"NaN", "null"} -> <<"n", "u", "l", "l">>
       [] v.t = "array" -> <<"[">> \o Join(v.e) \o <<"]">>
       [] v.t = "object" ->
            \* a member whose value is undefined is left out
            IF v.e = <<>> \/ v.e[1].t = "undefined" THEN <<"{", "}">>
            ELSE <<"{">> \o Quote(v.s) \o <<":">> \o JsonStringify(v.e[1]) \o <<"}">>

ParseFail == [ok |-> FALSE, v |-> Undefined, i |-> 0]
ParseOk(v, i) == [ok |-> TRUE, v |-> v, i |-> i]

\* whether the characters of word stand in s from position i
Lit(s, i, word) ==
  /\ i + Len(word) - 1 <= Len(s)
  /\ SubSeq(s, i, i + Len(word) - 1) = word

\* the characters of a JSON string whose opening quote precedes position i
RECURSIVE ParseChars(_, _, _)
ParseChars(s, i, acc) ==
  IF i > Len(s) THEN ParseFail
  ELSE IF s[i] = "\"" THEN ParseOk(Str(acc), i + 1)
  ELSE IF s[i] = "\\"
       THEN IF i + 1 <= Len(s) /\ s[i + 1] \in {"\"", "\\"}
            THEN ParseChars(s, i + 2, Append(acc, s[i + 1]))
            ELSE ParseFail
  ELSE ParseChars(s, i + 1, Append(acc, s[i]))

\* the digits of a JSON number that continue from position i
RECURSIVE ParseDigits(_, _, _)
ParseDigits(s, i, acc) ==
  IF i <= Len(s) /\ IsDigit(s[i])
  THEN ParseDigits(s, i + 1, acc * 10 + DigitValue(s[i]))
  ELSE ParseOk(Num(acc), i)

\* JSON value grammar: numbers without sign or fraction, true, false, null,
\* strings, arrays, and objects of at most one member
RECURSIVE ParseValue(_, _)
ParseValue(s, i) ==
  LET RECURSIVE ParseElems(_, _)
      ParseElems(j, acc) ==
        LET r == ParseValue(s, j) IN
        IF ~r.ok \/ r.i > Len(s) THEN ParseFail
        ELSE IF s[r.i] = "," THEN ParseElems(r.i + 1, Append(acc, r.v))
        ELSE IF s[r.i] = "]" THEN ParseOk(Arr(Append(acc, r.v)), r.i + 1)
        ELSE ParseFail
      ParseMember(j) ==
        LET k == ParseChars(s, j + 1, <<>>) IN
        IF s[j] # "\"" \/ ~k.ok \/ k.i > Len(s) \/ s[k.i] # ":" THEN ParseFail
        ELSE LET r == ParseValue(s, k.i + 1) IN
             IF r.ok /\ r.i <= Len(s) /\ s[r.i] = "}"
             THEN ParseOk(Obj(k.v.s, <<r.v>>), r.i + 1)
             ELSE ParseFail
  IN IF i > Len(s) THEN ParseFail
     ELSE IF s[i] = "0" THEN ParseOk(Num(0), i + 1)
     ELSE IF IsDigit(s[i]) THEN ParseDigits(s, i, 0)
     ELSE IF Lit(s, i, <<"t", "r", "u", "e">>) THEN ParseOk(Bool(TRUE), i + 4)
     ELSE IF Lit(s, i, <<"f", "a", "l", "s", "e">>) THEN ParseOk(Bool(FALSE), i + 5)
     ELSE IF Lit(s, i, <<"n", "u", "l", "l">>) THEN ParseOk(Null, i + 4)
     ELSE IF s[i] = "\"" THEN ParseChars(s, i + 1, <<>>)
     ELSE IF s[i] = "["
          THEN IF i + 1 <= Len(s) /\ s[i + 1] = "]" THEN ParseOk(Arr(<<>>), i + 2)
               ELSE ParseElems(i + 1, <<>>)
     ELSE IF s[i] = "{"
          THEN IF i + 1 <= Len(s) /\ s[i + 1] = "}" THEN ParseOk(Obj(<<>>, <<>>), i + 2)
               ELSE IF i + 1 <= Len(s) THEN ParseMember(i + 1) ELSE ParseFail
     ELSE ParseFail

\* JSON.parse(text): ok is false where JSON.parse throws
JsonParse(text) ==
  LET r == ParseValue(text, 1) IN
  IF r.ok /\ r.i = Len(text) + 1 THEN r ELSE ParseFail

isValidJson_Never(value) == FALSE

isValidJson(value) == JsonParse(value).ok

----------------------------------------------------------------------------
(* Inputs *)

\* the store of index.ts and a store the application constructs
DefaultStore == "defaultStore"
UserStore == "store"
Stores == {DefaultStore, UserStore}

Keys == {<<"k">>}

\* arguments of the constructor and of setNamespace: strings and, past the
\* type checker, values that are no string
NamespaceArgs == {Undefined, Num(123), Str(<<>>), Str(<<"a">>), Str(<<"b">>)}

\* the options of removeAsync: the backend raises on options it rejects
Options == {"none", "rejected"}

\* what get is given to return for a missing or invalid entry
Fallback == Str(<<"?">>)

\* schemas: z.any(), and one schema per kind of value, accepting exactly
\* the values of that kind
Schemas == {"any", "string", "number", "boolean", "null", "array", "object"}

RECURSIVE SeqsUpTo(_, _)
SeqsUpTo(S, n) ==
  IF n = 0 THEN {<<>>}
  ELSE LET shorter == SeqsUpTo(S, n - 1) IN
       shorter \cup {Append(q, x) : q \in {r \in shorter : Len(r) = n - 1}, x \in S}

Alphabet == {"1", "\""}
Strings == {Str(s) : s \in SeqsUpTo(Alphabet, MaxStrLen)}
             \cup {Str(<<"a">>), Str(<<"t", "r", "u", "e">>), Str(<<"n", "u", "l", "l">>)}
Numbers == {Num(n) : n \in 0..MaxNum}
Primitives == Strings \cup Numbers \cup {Bool(TRUE), Bool(FALSE)}
Elements == {Num(1), Str(<<"a">>), NaN, Undefined}
Structured == {Null} \cup {Arr(e) : e \in SeqsUpTo(Elements, MaxArrLen)}
                \cup {Obj(<<>>, <<>>)} \cup {Obj(<<"a">>, <<x>>) : x \in Elements}
Values == Primitives \cup Structured

\* the values written where the contents do not matter
SmallValues == {Str(<<"1">>), Arr(<<Num(1)>>)}
SmallSchemas == {"array"}

----------------------------------------------------------------------------
(* State *)

VARIABLES
  namespace,  \* each store's namespace field: Undefined or a string
  backend,    \* the secure store: backend key -> stored string
  origin,     \* history: backend key -> the value whose write stored the
              \* entry and the store it was written through
  slots,      \* outstanding setWithExpiration calls and their timers
  last        \* the last operation and what it returned

vars == <<namespace, backend, origin, slots, last>>

\* a slot: pc is "free", "awaiting" (the write is done, the timer not yet
\* set) or "armed"; key is the backend key the timer deletes, left the
\* time to its deadline.  History: store, lkey and ns are the call's store,
\* logical key and the namespace it ran under; fate is "intact" until the
\* entry is deleted ("removed" by a removeAsync, else "expired" by another
\* call's timer)
FreeSlot == [pc |-> "free", key |-> <<>>, left |-> 0, store |-> DefaultStore,
             lkey |-> <<>>, ns |-> Undefined, fate |-> "intact"]

\* arg: the schema of a get, the options of a removeAsync; val: the argument
\* of a setNamespace; res: the value returned.  Of a timer callback, val is
\* the namespace of its call and res the value whose entry it deleted
Op(op, store, key, arg, val, res) ==
  [op |-> op, store |-> store, key |-> key, arg |-> arg, val |-> val, res |-> res]

----------------------------------------------------------------------------
(* The backend (expo-secure-store) *)

SetItem(b, key, value) ==
  [e \in DOMAIN b \cup {key} |-> IF e = key THEN value ELSE b[e]]
DeleteItem(b, key) == [e \in DOMAIN b \ {key} |-> b[e]]
HasItem(b, key) == key \in DOMAIN b
\* deleteItemAsync raises on options the backend rejects
DeleteRaises(options) == options = "rejected"

----------------------------------------------------------------------------
(* TypeSafeStore *)

\* truthiness of a value
Truthy(v) ==
  CASE v.t \in {"undefined", "null", "NaN"} -> FALSE
    [] v.t = "string" -> v.s # <<>>
    [] v.t \in {"number", "boolean"} -> v.n # 0
    [] OTHER -> TRUE

\* the namespace field a constructor call leaves
Constructor(ns) == IF Truthy(ns) THEN ns ELSE Undefined

getNamespacedKey_NoPrefix(ns, key) == key

getNamespacedKey_NoSeparator(ns, key) ==
  IF Truthy(ns) THEN ns.s \o key ELSE key

getNamespacedKey(ns, key) ==
  IF Truthy(ns) THEN ns.s \o <<":">> \o key ELSE key

getNamespace(s) == namespace[s]

IsPrimitive(v) == TypeOf(v) \in {"string", "number", "boolean"}

setFn(ns, key, value) ==
  [key |-> getNamespacedKey(ns, key),
   value |-> IF IsPrimitive(value) THEN StringOf(value) ELSE JsonStringify(value)]

\* schema.safeParse(parsed).success; its data is the value parsed
Accepts(schema, v) ==
  schema = "any" \/ v.t = schema

GetValue_Unvalidated(b, ns, key, fallback, schema) ==
  LET namespacedKey == getNamespacedKey(ns, key) IN
  IF ~HasItem(b, namespacedKey) THEN fallback
  ELSE LET item == b[namespacedKey] IN
       IF isValidJson(item) THEN JsonParse(item).v ELSE Str(item)

\* what get and getAsync return
GetValue(b, ns, key, fallback, schema) ==
  LET namespacedKey == getNamespacedKey(ns, key) IN
  IF ~HasItem(b, namespacedKey) THEN fallback
  ELSE LET item == b[namespacedKey]
           parsed == IF isValidJson(item) THEN JsonParse(item).v ELSE Str(item)
       IN IF Accepts(schema, parsed) THEN parsed ELSE fallback

\* what exists and existsAsync return
ExistsValue(b, ns, key) == HasItem(b, getNamespacedKey(ns, key))

\* history kept in the slots
MarkDelete(sl, key, how) ==
  [i \in DOMAIN sl |->
     IF sl[i].pc # "free" /\ sl[i].key = key /\ sl[i].fate # "removed"
     THEN [sl[i] EXCEPT !.fate = how] ELSE sl[i]]

SetNamespace_Unchecked(s, ns) ==
  /\ namespace' = [namespace EXCEPT ![s] = ns]
  /\ last' = Op("setNamespace", s, <<>>, "", ns, Bool(TRUE))
  /\ UNCHANGED <<backend, origin, slots>>

SetNamespace(s, ns) ==
  /\ IF TypeOf(ns) = "string"
     THEN /\ namespace' = [namespace EXCEPT ![s] = ns]
          /\ last' = Op("setNamespace", s, <<>>, "", ns, Bool(TRUE))
     ELSE /\ UNCHANGED namespace
          /\ last' = Op("setNamespace", s, <<>>, "", ns, Bool(FALSE))
  /\ UNCHANGED <<backend, origin, slots>>

\* setFn, then the backend's setItem / setItemAsync
Store(s, key, value) ==
  LET toStore == setFn(namespace[s], key, value) IN
  /\ backend' = SetItem(backend, toStore.key, toStore.value)
  /\ origin' = SetItem(origin, toStore.key, [v |-> value, by |-> s])

\* a write that cancels the pending expirations of the entry
Set_Cancelling(s, key, value) ==
  /\ Store(s, key, value)
  /\ slots' = [i \in DOMAIN slots |->
                 IF slots[i].pc # "free"
                    /\ slots[i].key = getNamespacedKey(namespace[s], key)
                 THEN FreeSlot ELSE slots[i]]
  /\ last' = Op("set", s, key, "", Undefined, Bool(TRUE))
  /\ UNCHANGED namespace

Set(s, key, value) ==
  /\ Store(s, key, value)
  /\ UNCHANGED slots
  /\ last' = Op("set", s, key, "", Undefined, Bool(TRUE))
  /\ UNCHANGED namespace

SetAsync(s, key, value) ==
  /\ Store(s, key, value)
  /\ UNCHANGED slots
  /\ last' = Op("setAsync", s, key, "", Undefined, Bool(TRUE))
  /\ UNCHANGED namespace

\* setWithExpiration up to the end of its await: the write is done, the
\* call's continuation (the setTimeout) is still to run
SetWithExpiration(s, key, value, ttl) ==
  /\ \E i \in DOMAIN slots : slots[i].pc = "free"
  /\ LET i == CHOOSE j \in DOMAIN slots :
                /\ slots[j].pc = "free"
                /\ \A h \in DOMAIN slots : slots[h].pc = "free" => j <= h
     IN slots' = [slots EXCEPT ![i] =
                    [pc |-> "awaiting", key |-> setFn(namespace[s], key, value).key,
                     left |-> ttl, store |-> s, lkey |-> key, ns |-> namespace[s],
                     fate |-> "intact"]]
  /\ Store(s, key, value)
  /\ last' = Op("setWithExpiration", s, key, "", Undefined, Undefined)
  /\ UNCHANGED namespace

\* the continuation of setWithExpiration: setTimeout(..., ttl)
ScheduleTimer(i) ==
  /\ slots[i].pc = "awaiting"
  /\ slots' = [slots EXCEPT ![i].pc = "armed"]
  /\ UNCHANGED <<namespace, backend, origin, last>>

\* the clock advances one unit, whatever the event loop is doing; a timer
\* that is due stays due until its callback runs
Tick ==
  /\ \E i \in DOMAIN slots : slots[i].pc = "armed" /\ slots[i].left > 0
  /\ slots' = [i \in DOMAIN slots |->
                 IF slots[i].pc = "armed" /\ slots[i].left > 0
                 THEN [slots[i] EXCEPT !.left = @ - 1] ELSE slots[i]]
  /\ UNCHANGED <<namespace, backend, origin, last>>

TimerDelete_Never(b, slot) == b

TimerDelete_CurrentNamespace(b, slot) ==
  DeleteItem(b, getNamespacedKey(namespace[slot.store], slot.lkey))

\* the entry a timer callback leaves: deleteItemAsync(toStore.key)
TimerDelete(b, slot) == DeleteItem(b, slot.key)

\* the timer callback
TimerFire(i) ==
  /\ slots[i].pc = "armed"
  /\ slots[i].left = 0
  /\ backend' = TimerDelete(backend, slots[i])
  /\ origin' = TimerDelete(origin, slots[i])
  /\ slots' = [MarkDelete(slots, slots[i].key, "expired") EXCEPT ![i] = FreeSlot]
  /\ last' = Op("timer", slots[i].store, slots[i].lkey, "", slots[i].ns,
                IF HasItem(origin, slots[i].key) THEN origin[slots[i].key].v
                ELSE Undefined)
  /\ UNCHANGED namespace

Get(s, key, fallback, schema) ==
  /\ last' = Op("get", s, key, schema, Undefined,
                GetValue(backend, namespace[s], key, fallback, schema))
  /\ UNCHANGED <<namespace, backend, origin, slots>>

GetAsync(s, key, fallback, schema) ==
  /\ last' = Op("getAsync", s, key, schema, Undefined,
                GetValue(backend, namespace[s], key, fallback, schema))
  /\ UNCHANGED <<namespace, backend, origin, slots>>

RemoveResult_BareKey(b, ns, key, options) ==
  IF DeleteRaises(options) THEN [b |-> b, res |-> FALSE]
  ELSE [b |-> DeleteItem(b, key), res |-> TRUE]

\* what removeAsync leaves and returns
RemoveResult(b, ns, key, options) ==
  IF DeleteRaises(options) THEN [b |-> b, res |-> FALSE]
  ELSE [b |-> DeleteItem(b, getNamespacedKey(ns, key)), res |-> TRUE]

RemoveAsync(s, key, options) ==
  LET namespacedKey == getNamespacedKey(namespace[s], key) IN
  /\ backend' = RemoveResult(backend, namespace[s], key, options).b
  /\ origin' = RemoveResult(origin, namespace[s], key, options).b
  /\ slots' = IF DeleteRaises(options) THEN slots ELSE MarkDelete(slots, namespacedKey, "removed")
  /\ last' = Op("removeAsync", s, key, options, Undefined,
                Bool(RemoveResult(backend, namespace[s], key, options).res))
  /\ UNCHANGED namespace

Exists(s, key) ==
  /\ last' = Op("exists", s, key, "", Undefined,
                Bool(ExistsValue(backend, namespace[s], key)))
  /\ UNCHANGED <<namespace, backend, origin, slots>>

ExistsAsync(s, key) ==
  /\ last' = Op("existsAsync", s, key, "", Undefined,
                Bool(ExistsValue(backend, namespace[s], key)))
  /\ UNCHANGED <<namespace, backend, origin, slots>>

----------------------------------------------------------------------------
(* Specifications *)

\* index.ts constructs the default store without a namespace; the
\* application constructs its store with any namespace argument
Init ==
  /\ \E ns \in {Undefined, Str(<<>>), Str(<<"a">>)} :
       namespace = [s \in Stores |->
                      IF s = DefaultStore THEN Constructor(Undefined)
                      ELSE Constructor(ns)]
  /\ backend = <<>>
  /\ origin = <<>>
  /\ slots = [i \in 1..MaxTimers |-> FreeSlot]
  /\ last = Op("new", DefaultStore, <<>>, "", Undefined, Undefined)

\* no setWithExpiration call is outstanding
Idle == \A i \in DOMAIN slots : slots[i].pc = "free"

\* the whole program over small contents, one expiration at a time
Next ==
  \/ \E ns \in NamespaceArgs : SetNamespace(UserStore, ns)
  \/ \E s \in Stores, k \in Keys, v \in SmallValues : Set(s, k, v)
  \/ \E s \in Stores, k \in Keys, v \in SmallValues : SetAsync(s, k, v)
  \/ \E s \in Stores, k \in Keys, v \in SmallValues, ttl \in 0..MaxTtl :
       Idle /\ SetWithExpiration(s, k, v, ttl)
  \/ \E i \in 1..MaxTimers : ScheduleTimer(i)
  \/ Tick
  \/ \E i \in 1..MaxTimers : TimerFire(i)
  \/ \E s \in Stores, k \in Keys, sch \in SmallSchemas : Get(s, k, Fallback, sch)
  \/ \E s \in Stores, k \in Keys, sch \in SmallSchemas : GetAsync(s, k, Fallback, sch)
  \/ \E s \in Stores, k \in Keys, o \in Options : RemoveAsync(s, k, o)
  \/ \E s \in Stores, k \in Keys : Exists(s, k)
  \/ \E s \in Stores, k \in Keys : ExistsAsync(s, k)

Spec == Init /\ [][Next]_vars

\* the default store over every value and schema
NextValues ==
  \/ \E k \in Keys, v \in Values : Set(DefaultStore, k, v)
  \/ \E k \in Keys, v \in Values : SetAsync(DefaultStore, k, v)
  \/ \E k \in Keys, sch \in Schemas : Get(DefaultStore, k, Fallback, sch)
  \/ \E k \in Keys, sch \in Schemas : GetAsync(DefaultStore, k, Fallback, sch)
  \/ \E k \in Keys, o \in Options : RemoveAsync(DefaultStore, k, o)

ValueSpec == Init /\ [][NextValues]_vars

\* the application's store with up to MaxTimers expirations outstanding
NextExpiry ==
  \/ \E ns \in {Str(<<>>), Str(<<"a">>)} : SetNamespace(UserStore, ns)
  \/ \E k \in Keys, v \in SmallValues : Set(UserStore, k, v)
  \/ \E k \in Keys, ttl \in 0..MaxTtl :
       SetWithExpiration(UserStore, k, Str(<<"1">>), ttl)
  \/ \E i \in 1..MaxTimers : ScheduleTimer(i)
  \/ Tick
  \/ \E i \in 1..MaxTimers : TimerFire(i)
  \/ \E k \in Keys : RemoveAsync(UserStore, k, "none")
  \/ \E k \in Keys : ExistsAsync(UserStore, k)

\* the event loop runs every continuation and every due timer callback, and
\* time goes on
Fairness ==
  /\ \A i \in 1..MaxTimers : WF_vars(ScheduleTimer(i)) /\ WF_vars(TimerFire(i))
  /\ WF_vars(Tick)

ExpirySpec == Init /\ [][NextExpiry]_vars /\ Fairness

----------------------------------------------------------------------------
(* Properties *)

Writes == {"set", "setAsync", "setWithExpiration"}
Reads == {"get", "getAsync"}

\* the entry under a backend key: <<>> when there is none
Entry(b, e) == IF HasItem(b, e) THEN <<b[e]>> ELSE <<>>

\* this step creates or overwrites the entry e
Changed(e) == HasItem(backend', e) /\ Entry(backend', e) # Entry(backend, e)

\* what a namespace puts before a logical key
Prefix(ns) ==
  IF ns.t = "string" /\ ns.s # <<>> THEN ns.s \o <<":">> ELSE <<>>

\* this step runs the timer callback of slot i
Fires(i) == slots[i].pc = "armed" /\ slots'[i].pc # "armed"

\* get returns the fallback under every schema
NothingToGet(b, ns, key) ==
  \A sch \in Schemas : GetValue(b, ns, key, Fallback, sch) = Fallback

\* C1 as stated: a write of k through one store never creates or overwrites
\* the entry that a store with another getNamespace() uses for k.
C1_IsolationByGetNamespace ==
  [][\A e \in DOMAIN backend' :
       Changed(e) =>
         \A s2 \in Stores \ {last'.store} :
           getNamespace(s2) # getNamespace(last'.store)
             => getNamespacedKey(namespace[s2], last'.key) # e]_vars

\* C1 amended: a write of k through one store leaves the entry, and so the
\* exists(k), of every store whose namespace prefixes keys differently (the
\* empty string and undefined both prefix nothing) as it was.
C1_IsolationByPrefix ==
  [][\A s2 \in Stores :
       (/\ last'.op \in Writes
        /\ Prefix(namespace[s2]) # Prefix(namespace[last'.store]))
       => LET e2 == getNamespacedKey(namespace[s2], last'.key) IN
          /\ Entry(backend', e2) = Entry(backend, e2)
          /\ ExistsValue(backend', namespace'[s2], last'.key)
               = ExistsValue(backend, namespace[s2], last'.key)]_vars

\* C1 witness: the application's store, under namespace "a", has written k
\* and the default store's k does not exist.
C1_Witness ==
  /\ last.op \in Writes
  /\ last.store = UserStore
  /\ namespace[UserStore] = Str(<<"a">>)
  /\ ExistsValue(backend, namespace[UserStore], last.key)
  /\ ~ExistsValue(backend, namespace[DefaultStore], last.key)

\* C2 as stated: a get of an entry written from a primitive value, under
\* the schema of the value's type, returns the value.
C2_PrimitiveRoundTrip ==
  last.op \in Reads =>
    LET e == getNamespacedKey(namespace[last.store], last.key) IN
    (/\ HasItem(origin, e)
     /\ origin[e].by = last.store
     /\ IsPrimitive(origin[e].v)
     /\ last.arg = TypeOf(origin[e].v))
    => last.res = origin[e].v

\* values that JSON text represents
RECURSIVE JsonSafe(_)
JsonSafe(v) ==
  CASE v.t \in {"string", "number", "boolean", "null"} -> TRUE
    [] v.t \in {"array", "object"} -> \A j \in DOMAIN v.e : JsonSafe(v.e[j])
    [] OTHER -> FALSE

\* C3 as stated: a get of an entry written from a structured value, under a
\* schema that accepts the value, returns a value equal to it.
C3_StructuredRoundTrip ==
  last.op \in Reads =>
    LET e == getNamespacedKey(namespace[last.store], last.key) IN
    (/\ HasItem(origin, e)
     /\ origin[e].by = last.store
     /\ ~IsPrimitive(origin[e].v)
     /\ Accepts(last.arg, origin[e].v))
    => last.res = origin[e].v

\* C3 amended: the same, for the structured values that JSON represents
\* (no undefined and no NaN inside them).
C3_JsonRoundTrip ==
  last.op \in Reads =>
    LET e == getNamespacedKey(namespace[last.store], last.key) IN
    (/\ HasItem(origin, e)
     /\ origin[e].by = last.store
     /\ ~IsPrimitive(origin[e].v)
     /\ JsonSafe(origin[e].v)
     /\ Accepts(last.arg, origin[e].v))
    => last.res = origin[e].v

\* C3 witness: the array [1, "a"] was written and read back.
C3_Witness ==
  /\ last.op = "get"
  /\ last.arg = "array"
  /\ HasItem(origin, last.key)
  /\ origin[last.key].v = Arr(<<Num(1), Str(<<"a">>)>>)
  /\ last.res = Arr(<<Num(1), Str(<<"a">>)>>)

\* C4: get and getAsync return the fallback when the namespaced key is
\* absent or the stored string (JSON-decoded when it parses, raw otherwise)
\* fails the schema, and the decoded value in every other case.
C4_ReadFallback ==
  last.op \in Reads =>
    LET e == getNamespacedKey(namespace[last.store], last.key) IN
    IF e \notin DOMAIN backend THEN last.res = Fallback
    ELSE LET decoded == JsonParse(backend[e])
             candidate == IF decoded.ok THEN decoded.v ELSE Str(backend[e])
         IN IF Accepts(last.arg, candidate) THEN last.res = candidate
            ELSE last.res = Fallback

\* C4 witness: a getAsync of an entry that is present and fails the schema.
C4_Witness ==
  /\ last.op = "getAsync"
  /\ HasItem(backend, last.key)
  /\ JsonParse(backend[last.key]).ok
  /\ ~Accepts(last.arg, JsonParse(backend[last.key]).v)
  /\ last.res = Fallback

\* C5 as stated: once setWithExpiration has completed, and short of an
\* explicit remove, exists(k) is true until the call's timer fires.
C5_ExistsUntilOwnTimer ==
  \A i \in DOMAIN slots :
    (/\ slots[i].pc = "armed"
     /\ slots[i].fate # "removed"
     /\ namespace[slots[i].store] = slots[i].ns)
    => ExistsValue(backend, namespace[slots[i].store], slots[i].lkey)

\* C5 amended: once setWithExpiration has completed, exists(k) is true
\* until the call's timer fires provided that nothing (no removeAsync, no
\* timer of an earlier call) has deleted the entry since the write and the
\* store still maps k to it; the timer callback leaves the entry absent, an
\* absent entry stays absent until a write, and under a fair event loop
\* every timer fires.
C5_Expiration ==
  /\ [](\A i \in DOMAIN slots :
          (/\ slots[i].pc = "armed"
           /\ slots[i].fate = "intact"
           /\ getNamespacedKey(namespace[slots[i].store], slots[i].lkey) = slots[i].key)
          => ExistsValue(backend, namespace[slots[i].store], slots[i].lkey))
  /\ [][\A i \in DOMAIN slots :
          Fires(i) =>
            /\ ~HasItem(backend', slots[i].key)
            /\ getNamespacedKey(namespace[slots[i].store], slots[i].lkey) = slots[i].key
                 => ~ExistsValue(backend', namespace'[slots[i].store], slots[i].lkey)]_vars
  /\ [][\A e \in DOMAIN backend' : ~HasItem(backend, e) => last'.op \in Writes]_vars
  /\ \A i \in 1..MaxTimers : (slots[i].pc # "free") ~> (slots[i].pc = "free")

\* C5 witness: a timer is armed and not yet due, and existsAsync has just
\* returned true for its key.
C5_Witness ==
  \E i \in DOMAIN slots :
    /\ slots[i].pc = "armed"
    /\ slots[i].left > 0
    /\ last.op = "existsAsync"
    /\ last.key = slots[i].lkey
    /\ last.res = Bool(TRUE)

\* C6: a write of the entry after setWithExpiration does not cancel the
\* timer: an armed timer ends only by firing at its deadline, and its
\* callback deletes the entry, rewritten or not, so that exists(k) is false
\* and get returns the fallback on the store that made the call (while the
\* store maps k to the backend key of the call).
C6_ExpiryNotCancelled ==
  [][\A i \in DOMAIN slots :
       Fires(i) =>
         /\ slots[i].left = 0
         /\ ~HasItem(backend', slots[i].key)
         /\ getNamespacedKey(namespace[slots[i].store], slots[i].lkey) = slots[i].key
              => /\ ~ExistsValue(backend', namespace'[slots[i].store], slots[i].lkey)
                 /\ NothingToGet(backend', namespace'[slots[i].store], slots[i].lkey)]_vars

\* C6 witness: a timer callback has deleted an entry holding [1], which a
\* set wrote after the setWithExpiration call (whose own value is "1"),
\* and the entry is gone.
C6_Witness ==
  /\ last.op = "timer"
  /\ last.res = Arr(<<Num(1)>>)
  /\ last.val = namespace[last.store]
  /\ ~ExistsValue(backend, namespace[last.store], last.key)

\* C7: removeAsync returns true when the backend delete completes, after
\* which exists(key) is false and every other entry is as it was (the
\* backend is unchanged when the key was absent); it returns false when the
\* backend delete raises, and then the backend is unchanged.
C7_RemoveAsync ==
  [][(last'.op = "removeAsync" /\ last' # last) =>
       LET s == last'.store
           e == getNamespacedKey(namespace[s], last'.key)
       IN /\ last'.res = Bool(~DeleteRaises(last'.arg))
          /\ DeleteRaises(last'.arg) => backend' = backend
          /\ ~DeleteRaises(last'.arg) =>
               /\ ~ExistsValue(backend', namespace'[s], last'.key)
               /\ \A x \in (DOMAIN backend \cup DOMAIN backend') \ {e} :
                    Entry(backend', x) = Entry(backend, x)
               /\ ~HasItem(backend, e) => backend' = backend]_vars

\* C7 witness: a removeAsync whose backend delete raised returned false and
\* the namespaced entry is still there.
C7_Witness ==
  /\ last.op = "removeAsync"
  /\ last.res = Bool(FALSE)
  /\ namespace[last.store] = Str(<<"a">>)
  /\ ExistsValue(backend, namespace[last.store], last.key)

\* C8: setNamespace of a value that is no string returns false and leaves
\* the namespace and the backend unchanged; of a string it returns true and
\* getNamespace() then returns that string.
C8_SetNamespace ==
  [][(last'.op = "setNamespace" /\ last' # last) =>
       /\ backend' = backend
       /\ IF TypeOf(last'.val) = "string"
          THEN /\ last'.res = Bool(TRUE)
               /\ namespace'[last'.store] = last'.val
          ELSE /\ last'.res = Bool(FALSE)
               /\ namespace' = namespace]_vars

\* C8 witness: setNamespace(123) returned false on a store whose namespace
\* is "a".
C8_Witness ==
  /\ last.op = "setNamespace"
  /\ last.val = Num(123)
  /\ last.res = Bool(FALSE)
  /\ namespace[last.store] = Str(<<"a">>)

\* C9 as stated: after a set of k through a store, a setNamespace that
\* changes the store's getNamespace() makes exists(k) false and get return
\* the fallback.
C9_ChangeHidesEntry ==
  [][\A s \in Stores, k \in Keys :
       LET e == getNamespacedKey(namespace[s], k) IN
       (/\ namespace'[s] # namespace[s]
        /\ HasItem(origin, e)
        /\ origin[e].by = s)
       => /\ ~ExistsValue(backend', namespace'[s], k)
          /\ NothingToGet(backend', namespace'[s], k)]_vars

\* C9 amended: k maps to the one backend key made of the namespace's prefix
\* (nothing for undefined and for the empty string) and k; a setNamespace
\* leaves every entry as it was, makes k map to another backend key exactly
\* when the prefix changes, and then exists(k) is false and get returns the
\* fallback unless an entry is already stored under the new key.
C9_ChangeOrphansEntry ==
  [][\A s \in Stores, k \in Keys :
       namespace'[s] # namespace[s] =>
         LET old == getNamespacedKey(namespace[s], k)
             new == getNamespacedKey(namespace'[s], k)
         IN /\ backend' = backend
            /\ new = Prefix(namespace'[s]) \o k
            /\ (new = old) <=> (Prefix(namespace'[s]) = Prefix(namespace[s]))
            /\ ~HasItem(backend, new) =>
                 /\ ~ExistsValue(backend', namespace'[s], k)
                 /\ NothingToGet(backend', namespace'[s], k)]_vars

\* C9 witness: the application's store wrote k with no namespace, then took
\* namespace "a": the entry is still stored under k, and k does not exist
\* for the store.
C9_Witness ==
  /\ last.op = "setNamespace"
  /\ last.val = Str(<<"a">>)
  /\ namespace[UserStore] = Str(<<"a">>)
  /\ HasItem(origin, <<"k">>)
  /\ origin[<<"k">>].by = UserStore
  /\ ~ExistsValue(backend, namespace[UserStore], <<"k">>)

\* C10 as stated: when the store's namespace at the time the timer fires is
\* not the one of the setWithExpiration call, the callback deletes the entry
\* under the old namespace and leaves the entry of k under the new one
\* untouched.
C10_TimerSparesNewNamespace ==
  [][\A i \in DOMAIN slots :
       (Fires(i) /\ namespace[slots[i].store] # slots[i].ns) =>
         LET cur == getNamespacedKey(namespace[slots[i].store], slots[i].lkey) IN
         /\ ~HasItem(backend', getNamespacedKey(slots[i].ns, slots[i].lkey))
         /\ Entry(backend', cur) = Entry(backend, cur)]_vars

\* C10 amended: the callback deletes exactly the backend key computed from
\* the namespace of the setWithExpiration call; the entry that the store's
\* namespace at the time of firing gives k is untouched whenever that is
\* another backend key (it is the same key when the namespace changed
\* between undefined and the empty string).
C10_TimerUsesKeyOfCall ==
  [][\A i \in DOMAIN slots :
       Fires(i) =>
         LET cur == getNamespacedKey(namespace[slots[i].store], slots[i].lkey)
             then == getNamespacedKey(slots[i].ns, slots[i].lkey)
         IN /\ backend' = DeleteItem(backend, then)
            /\ cur # then => Entry(backend', cur) = Entry(backend, cur)]_vars

\* C10 witness: a timer set under no namespace has fired after the store
\* took namespace "a", and the entry of k under "a" is still there.
C10_Witness ==
  /\ last.op = "timer"
  /\ ~Truthy(last.val)
  /\ namespace[last.store] = Str(<<"a">>)
  /\ ExistsValue(backend, namespace[last.store], last.key)
  /\ ~HasItem(backend, last.key)

====
